---- MODULE Spec2Model ----
(***************************************************************************)
(* Model of the SQLite-backed peer directory of the tracker                *)
(* (src/src/peer_db/sqlite.rs).  The three tables are sets of rows, every  *)
(* SQL statement is translated into the set operation SQLite performs for  *)
(* it, and every method of the PeerDatabase trait is one action.           *)
(*                                                                         *)
(* SystemTime is finer than the whole seconds the tables hold: a           *)
(* SystemTime is counted here in ticks, TicksPerSec ticks to a second.     *)
(* An Option<T> is the set holding no or one T; a Vec returned by a query  *)
(* is the set of its elements (its order is the storage order, on which    *)
(* nothing here depends).                                                  *)
(***************************************************************************)
EXTENDS Integers, Sequences, FiniteSets, TLC

\* ---------------------------------------------------------------- bounds
TicksPerSec == 2
MaxTick == 2
MaxLen == 1
MaxPk == 2
MaxCalls == 2

Address == {"10.0.0.1:6881", "10.0.0.2:6881"}
HashSet == {"H1", "H2"}
Ticks == 0..MaxTick

\* SQL NULL; rowids handed out by AUTOINCREMENT start at 1
NULL == 0

VARIABLES peers, hashes, peer_hashes, seq_peers, seq_hashes, hist

vars == <<peers, hashes, peer_hashes, seq_peers, seq_hashes, hist>>

\* ------------------------------------------------------------ conversions
timestamp_to_unix(timestamp) == timestamp \div TicksPerSec

unix_to_timestamp(seconds) == seconds * TicksPerSec

\* the tables and AUTOINCREMENT counters of one connection
DB == [peers |-> peers, hashes |-> hashes, peer_hashes |-> peer_hashes,
       seq_peers |-> seq_peers, seq_hashes |-> seq_hashes]

\* a row of peers read back as a Peer value
RowToPeer(row) == [address |-> row.address,
                   date_added |-> unix_to_timestamp(row.date_added),
                   last_seen |-> unix_to_timestamp(row.last_seen)]

\* scalar subquery: the value of the single row, NULL when there is none
Scalar(S) == IF S = {} THEN NULL ELSE CHOOSE x \in S : TRUE

SeqToSet(s) == {s[i] : i \in 1..Len(s)}

\* ------------------------------------------------------------- statements
\* upsert_peer as it would be without the ON CONFLICT clause reaching the
\* existing row: every call inserts
upsert_peer_always_inserts(db, peer) ==
  LET date_updated == timestamp_to_unix(peer.date_added)
      last_seen == timestamp_to_unix(peer.last_seen)
  IN  [db |-> [db EXCEPT !.peers = @ \cup {[pk |-> db.seq_peers + 1,
                                             address |-> peer.address,
                                             date_added |-> date_updated,
                                             last_seen |-> last_seen]},
                         !.seq_peers = @ + 1],
       ret |-> (date_updated # last_seen)]

\* upsert_peer as it would be with DO UPDATE SET date_added, last_seen
upsert_peer_overwrites(db, peer) ==
  LET date_updated == timestamp_to_unix(peer.date_added)
      last_seen == timestamp_to_unix(peer.last_seen)
      conflict == {r \in db.peers : r.address = peer.address}
      affected == IF conflict = {}
                  THEN {[pk |-> db.seq_peers + 1, address |-> peer.address,
                         date_added |-> date_updated, last_seen |-> last_seen]}
                  ELSE {[r EXCEPT !.date_added = date_updated,
                                  !.last_seen = last_seen] : r \in conflict}
  IN  [db |-> [db EXCEPT !.peers = (@ \ conflict) \cup affected,
                         !.seq_peers = IF conflict = {} THEN @ + 1 ELSE @],
       ret |-> (date_updated # last_seen)]

\* INSERT INTO peers ... ON CONFLICT (address) DO UPDATE SET last_seen
\* RETURNING last_seen; the value read back is compared with the bound
\* date_added
upsert_peer(db, peer) ==
  LET address == peer.address
      date_updated == timestamp_to_unix(peer.date_added)
      last_seen == timestamp_to_unix(peer.last_seen)
      conflict == {r \in db.peers : r.address = address}
      inserted == [pk |-> db.seq_peers + 1, address |-> address,
                   date_added |-> date_updated, last_seen |-> last_seen]
      affected == IF conflict = {}
                  THEN {inserted}
                  ELSE {[r EXCEPT !.last_seen = last_seen] : r \in conflict}
      date_added == (CHOOSE r \in affected : TRUE).last_seen
  IN  [db |-> [db EXCEPT !.peers = (@ \ conflict) \cup affected,
                         !.seq_peers = IF conflict = {} THEN @ + 1 ELSE @],
       ret |-> (date_updated # date_added)]

\* insert_hash as it would be without the UNIQUE conflict on hash
insert_hash_always_inserts(db, hash) ==
  [db EXCEPT !.hashes = @ \cup {[pk |-> db.seq_hashes + 1, hash |-> hash]},
             !.seq_hashes = @ + 1]

\* INSERT INTO hashes (hash) ... ON CONFLICT (hash) DO NOTHING
insert_hash(db, hash) ==
  IF \E h \in db.hashes : h.hash = hash
  THEN db
  ELSE [db EXCEPT !.hashes = @ \cup {[pk |-> db.seq_hashes + 1, hash |-> hash]},
                  !.seq_hashes = @ + 1]

\* INSERT INTO peer_hashes VALUES ((SELECT pk FROM peers ...),
\* (SELECT pk FROM hashes ...)) ON CONFLICT (peer_pk, hash_pk) DO NOTHING
link(db, hash, peer_address) ==
  LET peer_pk == Scalar({r.pk : r \in {p \in db.peers : p.address = peer_address}})
      hash_pk == Scalar({r.pk : r \in {h \in db.hashes : h.hash = hash}})
  IN  [db EXCEPT !.peer_hashes = @ \cup {[peer_pk |-> peer_pk, hash_pk |-> hash_pk]}]

\* the loop of update_peer over the announced hashes, in their order
RECURSIVE announce_hashes(_, _, _)
announce_hashes(db, hs, peer_address) ==
  IF hs = <<>>
  THEN db
  ELSE announce_hashes(link(insert_hash(db, Head(hs)), Head(hs), peer_address),
                       Tail(hs), peer_address)

\* update_peer as it would be if an announce replaced the links of the peer
\* by those of the hashes it names
update_peer_replaces_links(db, peer, hs) ==
  LET was_known_peer == upsert_peer(db, peer)
      own == {r.pk : r \in {p \in db.peers : p.address = peer.address}}
      kept == [was_known_peer.db EXCEPT
                 !.peer_hashes = {l \in @ : l.peer_pk \notin own}]
  IN  [db |-> announce_hashes(kept, hs, peer.address),
       ret |-> was_known_peer.ret]

update_peer(db, peer, hs) ==
  LET was_known_peer == upsert_peer(db, peer)
  IN  [db |-> announce_hashes(was_known_peer.db, hs, peer.address),
       ret |-> was_known_peer.ret]

\* remove_peer as it would be if it also deleted the hashes of the peer
remove_peer_drops_hashes(db, peer_address) ==
  LET deleted == {r \in db.peers : r.address = peer_address}
      served == {l.hash_pk : l \in {x \in db.peer_hashes :
                                      \E p \in deleted : p.pk = x.peer_pk}}
  IN  [db |-> [db EXCEPT !.peers = @ \ deleted,
                         !.hashes = {h \in @ : h.pk \notin served}],
       ret |-> {RowToPeer(r) : r \in deleted}]

\* remove_peer as it would be with the DELETE FROM peers never stepped either
remove_peer_deletes_nothing(db, peer_address) ==
  [db |-> db,
   ret |-> {RowToPeer(r) : r \in {p \in db.peers : p.address = peer_address}}]

\* The DELETE FROM peer_hashes statement is prepared and bound and then
\* dropped without a step, so no row leaves peer_hashes; the cursor of
\* DELETE FROM peers ... RETURNING is stepped once.
remove_peer(db, peer_address) ==
  LET deleted == {r \in db.peers : r.address = peer_address}
  IN  [db |-> [db EXCEPT !.peers = @ \ deleted],
       ret |-> {RowToPeer(r) : r \in deleted}]

\* prepare() compiles the text up to the first ';' only: the statement that
\* runs is DELETE FROM peer_hashes WHERE peer_pk IN (SELECT pk FROM peers
\* WHERE last_seen < :timestamp), and change_count() is its row count.
cleanup_peers(db, timestamp) ==
  LET stale == {r.pk : r \in {p \in db.peers :
                                p.last_seen < timestamp_to_unix(timestamp)}}
      unlinked == {l \in db.peer_hashes : l.peer_pk \in stale}
  IN  [db |-> [db EXCEPT !.peer_hashes = @ \ unlinked],
       ret |-> Cardinality(unlinked)]

\* The innermost SELECT is an aggregate without GROUP BY: it yields one row,
\* COUNT(peer_pk) over the whole of peer_hashes next to the hash_pk of some
\* row of it (bare; NULL when the table is empty).
cleanup_hashes(db, bare) ==
  LET count == Cardinality({l \in db.peer_hashes : l.peer_pk # NULL})
      pks == IF count = 0 /\ bare # NULL THEN {bare} ELSE {}
      deleted == {h \in db.hashes : h.pk \in pks}
  IN  [db |-> [db EXCEPT !.hashes = @ \ deleted],
       ret |-> Cardinality(deleted)]

\* ---------------------------------------------------------------- queries
get_peer(db, peer_address) ==
  {RowToPeer(r) : r \in {p \in db.peers : p.address = peer_address}}

get_peers(db) == {RowToPeer(r) : r \in db.peers}

\* hashes INNER JOIN peer_hashes WHERE hash = ?: one row per link of the hash
HashLinks(db, hash) ==
  {l \in db.peer_hashes : \E h \in db.hashes : h.hash = hash /\ h.pk = l.hash_pk}

\* LEFT JOIN peers: a link without a peer row gives a row of NULLs, and
\* row[0].as_string().unwrap() panics on it (panic); otherwise the call
\* returns the peers of the links
get_peers_for_hash(db, hash) ==
  LET dangling == {l \in HashLinks(db, hash) : \A p \in db.peers : p.pk # l.peer_pk}
  IN  [panic |-> dangling # {},
       peers |-> IF dangling # {}
                 THEN {}
                 ELSE {RowToPeer(p) : p \in {q \in db.peers :
                         \E l \in HashLinks(db, hash) : l.peer_pk = q.pk}}]

\* GROUP BY (hash) over the join: one entry per hash that has a link row
get_hashes(db) ==
  {<<hash, Cardinality({l \in HashLinks(db, hash) : l.peer_pk # NULL})>> :
     hash \in {h.hash : h \in {x \in db.hashes : HashLinks(db, x.hash) # {}}}}

get_peer_count(db) == Cardinality(db.peers)

\* get_hash_count as it would be if it counted through the join of get_hashes
get_hash_count_linked(db) ==
  Cardinality({h \in db.hashes : \E l \in db.peer_hashes : l.hash_pk = h.pk})

get_hash_count(db) == Cardinality(db.hashes)

\* ---------------------------------------------------------------- actions
\* hist is a record kept beside the store for stating scenarios: the
\* addresses whose announce named each hash, and how many announces each
\* address made (counted up to MaxCalls, "MaxCalls or more" from there on).
\* Only the announce-only specification SpecAnnounce writes it.
Init ==
  /\ peers = {}
  /\ hashes = {}
  /\ peer_hashes = {}
  /\ seq_peers = 0
  /\ seq_hashes = 0
  /\ hist = [announced |-> [h \in HashSet |-> {}], upserts |-> [a \in Address |-> 0]]

Install(db) ==
  /\ peers' = db.peers
  /\ hashes' = db.hashes
  /\ peer_hashes' = db.peer_hashes
  /\ seq_peers' = db.seq_peers
  /\ seq_hashes' = db.seq_hashes

HashLists == UNION {[1..n -> HashSet] : n \in 0..MaxLen}

PeerValues == [address : Address, date_added : Ticks, last_seen : Ticks]

Cutoffs == 0..(MaxTick + TicksPerSec)

Announce(peer, hs) ==
  \E db \in {update_peer(DB, peer, hs).db} :
    /\ db.seq_peers <= MaxPk
    /\ db.seq_hashes <= MaxPk
    /\ Install(db)

UpdatePeer ==
  \E peer \in PeerValues, hs \in HashLists :
    /\ Announce(peer, hs)
    /\ UNCHANGED hist

RemovePeer ==
  \E address \in Address :
    /\ \E db \in {remove_peer(DB, address).db} : Install(db)
    /\ UNCHANGED hist

CleanupPeers ==
  \E timestamp \in Cutoffs :
    /\ \E db \in {cleanup_peers(DB, timestamp).db} : Install(db)
    /\ UNCHANGED hist

\* the hash_pk values the bare column of the aggregate can take
BareColumn(db) ==
  IF db.peer_hashes = {} THEN {NULL} ELSE {l.hash_pk : l \in db.peer_hashes}

CleanupHashes ==
  \E bare \in BareColumn(DB) :
    /\ \E db \in {cleanup_hashes(DB, bare).db} : Install(db)
    /\ UNCHANGED hist

Next == UpdatePeer \/ RemovePeer \/ CleanupPeers \/ CleanupHashes

Spec == Init /\ [][Next]_vars

\* The store driven by announces only, with the record of who announced what.
AnnounceTracked ==
  \E peer \in PeerValues, hs \in HashLists :
    /\ Announce(peer, hs)
    /\ hist' = [announced |-> [h \in HashSet |->
                                 IF h \in SeqToSet(hs)
                                 THEN hist.announced[h] \cup {peer.address}
                                 ELSE hist.announced[h]],
                upserts |-> [hist.upserts EXCEPT ![peer.address] =
                                          IF @ < MaxCalls THEN @ + 1 ELSE @]]

SpecAnnounce == Init /\ [][AnnounceTracked]_vars

TypeOK ==
  /\ \A p \in peers : p.pk \in 1..seq_peers
  /\ \A h \in hashes : h.pk \in 1..seq_hashes /\ h.hash \in HashSet
  /\ \A l \in peer_hashes : l.peer_pk \in 1..seq_peers /\ l.hash_pk \in 1..seq_hashes

\* ----------------------------------------------------------------- claims
\* the rows of db.peers stored for an address
PeerRows(db, address) == {p \in db.peers : p.address = address}

\* the rows of db.hashes stored for a hash
HashRows(db, hash) == {h \in db.hashes : h.hash = hash}

\* the peer_count get_hashes reports for a hash, 0 when it reports none
PeerCount(db, hash) ==
  LET entries == {e \in get_hashes(db) : e[1] = hash}
  IN  IF entries = {} THEN 0 ELSE (CHOOSE e \in entries : TRUE)[2]

\* the peers cleanup_peers(cutoff) is to remove: last_seen strictly earlier
StalePeers(db, cutoff) == {p \in db.peers : RowToPeer(p).last_seen < cutoff}

\* the links of a set of peer rows
LinksOf(db, rows) == {l \in db.peer_hashes : \E p \in rows : p.pk = l.peer_pk}

\* C1: cleanup_peers(cutoff) removes exactly the peers whose last_seen is
\* strictly earlier than cutoff and exactly their links, and leaves every
\* other peer, link and hash in place.
C1_CleanupPeersRemovesStale ==
  \A cutoff \in Cutoffs :
    LET after == cleanup_peers(DB, cutoff).db
    IN  /\ after.peers = peers \ StalePeers(DB, cutoff)
        /\ after.peer_hashes = peer_hashes \ LinksOf(DB, StalePeers(DB, cutoff))
        /\ after.hashes = hashes

\* C2: after remove_peer(addr) on a known address, for every hash the peer
\* was linked to the peer_count of get_hashes has dropped by one and
\* get_peers_for_hash returns without the peer.
C2_RemovePeerRemovesLinks ==
  \A address \in Address :
    \A p \in PeerRows(DB, address) :
      LET after == remove_peer(DB, address).db
      IN  \A h \in hashes :
            (\E l \in peer_hashes : l.peer_pk = p.pk /\ l.hash_pk = h.pk) =>
              /\ PeerCount(after, h.hash) = PeerCount(DB, h.hash) - 1
              /\ ~get_peers_for_hash(after, h.hash).panic
              /\ RowToPeer(p) \notin get_peers_for_hash(after, h.hash).peers

\* C3: cleanup_hashes() removes exactly the hashes that have no link when it
\* is called, and no hash that has one.
C3_CleanupHashesRemovesOrphans ==
  \A bare \in BareColumn(DB) :
    cleanup_hashes(DB, bare).db.hashes =
      {h \in hashes : \E l \in peer_hashes : l.hash_pk = h.pk}

\* C4: for every hash, get_peers_for_hash returns as many peers as the
\* peer_count get_hashes reports for it (0 when it reports none).
C4_PeersForHashMatchesCount ==
  \A hash \in HashSet :
    /\ ~get_peers_for_hash(DB, hash).panic
    /\ Cardinality(get_peers_for_hash(DB, hash).peers) = PeerCount(DB, hash)

\* C5: remove_peer(addr) on an address not in the store returns nothing and
\* changes nothing; on an address in the store it returns the record stored
\* for it, and get_peer(addr) returns nothing afterwards.
C5_RemovePeerReturnsRecord ==
  \A address \in Address :
    LET r == remove_peer(DB, address)
    IN  IF get_peer(DB, address) = {}
        THEN r.ret = {} /\ r.db = DB
        ELSE /\ r.ret = get_peer(DB, address)
             /\ Cardinality(r.ret) = 1
             /\ get_peer(r.db, address) = {}

\* a removal has been made, and the store holds one address and lacks another
C5_Witness ==
  /\ seq_peers > Cardinality(peers)
  /\ \E a, b \in Address :
       /\ get_peer(DB, b) = {}
       /\ remove_peer(DB, b).ret = {}
       /\ remove_peer(DB, a).ret # {}
       /\ get_peer(remove_peer(DB, a).db, a) = {}

\* C6: update_peer returns true exactly when the address was in the store
\* before the call, whatever timestamps the caller supplies.
C6_UpdatePeerReturnsKnown ==
  \A peer \in PeerValues, hs \in HashLists :
    update_peer(DB, peer, hs).ret = (get_peer(DB, peer.address) # {})

\* C7: cleanup_peers(cutoff) returns the number of peers whose last_seen was
\* strictly earlier than cutoff when it was called.
C7_CleanupPeersReturnsCount ==
  \A cutoff \in Cutoffs :
    cleanup_peers(DB, cutoff).ret = Cardinality(StalePeers(DB, cutoff))

\* the announces C8 is about: the address is stored and the announce
\* carries a later last_seen than the stored one
LaterAnnounces(db) ==
  {peer \in PeerValues :
     \E old \in get_peer(db, peer.address) : peer.last_seen > old.last_seen}

\* C8 as stated: after an announce of a stored address with a later
\* last_seen, get_peer gives the supplied last_seen and the date_added the
\* store held before, whatever date_added the announce supplies.
C8_LastSeenBecomesSupplied ==
  \A peer \in LaterAnnounces(DB), hs \in HashLists :
    \A old \in get_peer(DB, peer.address) :
      get_peer(update_peer(DB, peer, hs).db, peer.address) =
        {[old EXCEPT !.last_seen = peer.last_seen]}

\* C8 amended: after an announce of a stored address with a later
\* last_seen, get_peer gives the supplied last_seen cut down to whole
\* seconds and the date_added the store held before, whatever date_added the
\* announce supplies.
C8_LastSeenBecomesSuppliedSeconds ==
  \A peer \in LaterAnnounces(DB), hs \in HashLists :
    \A old \in get_peer(DB, peer.address) :
      get_peer(update_peer(DB, peer, hs).db, peer.address) =
        {[old EXCEPT !.last_seen =
            unix_to_timestamp(timestamp_to_unix(peer.last_seen))]}

\* a stored peer meets an announce with a later last_seen and another
\* date_added, and the announce moves last_seen and keeps date_added
C8_Witness ==
  \E peer \in LaterAnnounces(DB) :
    \E old \in get_peer(DB, peer.address),
       new \in get_peer(update_peer(DB, peer, <<>>).db, peer.address) :
      /\ peer.date_added # old.date_added
      /\ timestamp_to_unix(peer.date_added) # timestamp_to_unix(old.date_added)
      /\ new.last_seen > old.last_seen
      /\ new.date_added = old.date_added

\* C9: when a hash has been announced by M distinct addresses and nothing
\* was removed, the store holds one row for the hash and get_hashes reports
\* the hash once, with peer_count M.
C9_OneHashRowCountsAnnouncers ==
  \A hash \in HashSet :
    hist.announced[hash] # {} =>
      /\ Cardinality(HashRows(DB, hash)) = 1
      /\ {e \in get_hashes(DB) : e[1] = hash} =
           {<<hash, Cardinality(hist.announced[hash])>>}

\* a hash announced by two addresses
C9_Witness ==
  \E hash \in HashSet :
    /\ Cardinality(hist.announced[hash]) = 2
    /\ <<hash, 2>> \in get_hashes(DB)

\* C10: update_peer calls with one address, with any timestamps and hash
\* lists, leave one peer row for the address: no address has two rows, and
\* while a single address has announced get_peer_count is 1.
C10_OneRowPerAddress ==
  /\ \A address \in Address : Cardinality(PeerRows(DB, address)) <= 1
  /\ \A address \in Address :
       (hist.upserts[address] > 0 /\
        \A other \in Address \ {address} : hist.upserts[other] = 0)
         => get_peer_count(DB) = 1

\* one address has announced MaxCalls times or more, no other has
C10_Witness ==
  \E address \in Address :
    /\ hist.upserts[address] = MaxCalls
    /\ \A other \in Address \ {address} : hist.upserts[other] = 0
    /\ get_peer_count(DB) = 1

\* the announce of the scenario: the address announcing H1 at second t
ScenarioAnnounce(db, address, t) ==
  update_peer(db, [address |-> address, date_added |-> unix_to_timestamp(t),
                   last_seen |-> unix_to_timestamp(t)], <<"H1">>).db

\* C11: from an empty store, peer 1 announcing H1 at t=100 gives
\* get_peer_count 1 and get_hashes {(H1,1)}; peer 2 announcing H1 at t=101
\* gives get_hashes {(H1,2)}; cleanup_peers(101) then gives get_peer_count 1
\* and get_hashes {(H1,1)}; remove_peer(peer 2) and cleanup_hashes() then
\* leave get_hash_count 0.
C11_ScenarioTrace ==
  (peers = {} /\ hashes = {} /\ peer_hashes = {}) =>
    LET s1 == ScenarioAnnounce(DB, "10.0.0.1:6881", 100)
        s2 == ScenarioAnnounce(s1, "10.0.0.2:6881", 101)
        s3 == cleanup_peers(s2, unix_to_timestamp(101)).db
        s4 == remove_peer(s3, "10.0.0.2:6881").db
    IN  /\ get_peer_count(s1) = 1
        /\ get_hashes(s1) = {<<"H1", 1>>}
        /\ get_hashes(s2) = {<<"H1", 2>>}
        /\ get_peer_count(s3) = 1
        /\ get_hashes(s3) = {<<"H1", 1>>}
        /\ \A bare \in BareColumn(s4) :
             get_hash_count(cleanup_hashes(s4, bare).db) = 0

\* C12: after cleanup_peers(cutoff) followed by cleanup_hashes(), every hash
\* left in the store has a link to a peer left in the store, and
\* get_hash_count equals the number of entries of get_hashes.
C12_SweepLeavesNoOrphan ==
  \A cutoff \in Cutoffs :
    \A bare \in BareColumn(cleanup_peers(DB, cutoff).db) :
      LET after == cleanup_hashes(cleanup_peers(DB, cutoff).db, bare).db
      IN  /\ \A h \in after.hashes :
               \E l \in after.peer_hashes, p \in after.peers :
                 l.hash_pk = h.pk /\ l.peer_pk = p.pk
          /\ get_hash_count(after) = Cardinality(get_hashes(after))

\* C13: get_peers_for_hash never aborts: it returns the peers of the links
\* whose peer row exists, and a link whose peer row is gone adds no peer.
C13_PeersForHashNeverAborts ==
  \A hash \in HashSet :
    LET got == get_peers_for_hash(DB, hash)
    IN  /\ ~got.panic
        /\ got.peers = {RowToPeer(p) : p \in {q \in peers :
                          \E l \in HashLinks(DB, hash) : l.peer_pk = q.pk}}

\* C14: every link row refers to a peer row and to a hash row that exist.
C14_LinksHaveBothEnds ==
  \A l \in peer_hashes :
    /\ \E p \in peers : p.pk = l.peer_pk
    /\ \E h \in hashes : h.pk = l.hash_pk

\* the Peer values whose own last_seen is not before their date_added
OrderedPeerValues == {peer \in PeerValues : peer.last_seen >= peer.date_added}

\* update_peer called with such values only
UpdatePeerOrdered ==
  \E peer \in OrderedPeerValues, hs \in HashLists :
    /\ Announce(peer, hs)
    /\ UNCHANGED hist

NextOrdered == UpdatePeerOrdered \/ RemovePeer \/ CleanupPeers \/ CleanupHashes

SpecOrdered == Init /\ [][NextOrdered]_vars

\* C15: when every Peer value passed to update_peer has last_seen >=
\* date_added, every stored peer has last_seen >= date_added, in whatever
\* order the announces of an address carry their timestamps.
C15_LastSeenNotBeforeDateAdded ==
  \A address \in Address :
    \A peer \in get_peer(DB, address) : peer.last_seen >= peer.date_added

\* C16: update_peer, remove_peer and cleanup_peers delete no hash row; after
\* remove_peer, get_hash_count still counts the hashes the peer was serving,
\* those left without another link too.
C16_HashRowsOutliveRemoval ==
  /\ \A peer \in PeerValues, hs \in HashLists :
       hashes \subseteq update_peer(DB, peer, hs).db.hashes
  /\ \A cutoff \in Cutoffs : cleanup_peers(DB, cutoff).db.hashes = hashes
  /\ \A address \in Address :
       LET after == remove_peer(DB, address).db
       IN  /\ after.hashes = hashes
           /\ get_hash_count(after) = get_hash_count(DB)

\* a stored peer is the only one linked to a hash, and the hash row is
\* still there after remove_peer of that peer
C16_Witness ==
  \E p \in peers, h \in hashes :
    /\ \E l \in peer_hashes : l.peer_pk = p.pk /\ l.hash_pk = h.pk
    /\ \A l \in peer_hashes : l.hash_pk = h.pk => l.peer_pk = p.pk
    /\ remove_peer(DB, p.address).ret # {}
    /\ h \in remove_peer(DB, p.address).db.hashes

\* the hash lists of the announces, and the lists naming one hash twice
RepeatLists == HashLists \cup {<<h, h>> : h \in HashSet}

\* the link rows between the peer rows of an address and the rows of a hash
LinksBetween(db, address, hash) ==
  LET peer_pks == {p.pk : p \in PeerRows(db, address)}
      hash_pks == {h.pk : h \in HashRows(db, hash)}
  IN  {l \in db.peer_hashes : l.peer_pk \in peer_pks /\ l.hash_pk \in hash_pks}

\* C17: in every reachable store, a second update_peer(p, hs) with the same
\* peer value and hash list, a list that repeats a hash included, leaves
\* peers, hashes and links as the first call left them, with at most one
\* link for a peer and a hash.
C17_UpdatePeerIdempotent ==
  [](\A peer \in PeerValues, hs \in RepeatLists :
       \A once \in {update_peer(DB, peer, hs).db} :
         \A twice \in {update_peer(once, peer, hs).db} :
           /\ twice.peers = once.peers
           /\ twice.hashes = once.hashes
           /\ twice.peer_hashes = once.peer_hashes
           /\ \A hash \in SeqToSet(hs) :
                Cardinality(LinksBetween(once, peer.address, hash)) = 1)

C17_Witness ==
  \E peer \in PeerValues, h \in HashSet :
    LET once == update_peer(DB, peer, <<h, h>>).db
    IN  /\ get_peer(DB, peer.address) = {}
        /\ HashRows(DB, h) = {}
        /\ peers # {}
        /\ Cardinality(LinksBetween(once, peer.address, h)) = 1
        /\ update_peer(once, peer, <<h, h>>).db.peer_hashes = once.peer_hashes

\* the addresses get_peers_for_hash returns for a hash
ServingAddresses(db, hash) ==
  {p.address : p \in get_peers_for_hash(db, hash).peers}

\* the peer values of the addresses get_peers_for_hash returns for a hash
ServedPeerValues(db, hash) ==
  {peer \in PeerValues : peer.address \in ServingAddresses(db, hash)}

\* the hash lists that do not name a hash
ListsWithout(hash) == {hs \in HashLists : hash \notin SeqToSet(hs)}

\* C18: in every reachable store, update_peer(p, hs) removes no peer, no hash
\* and no link: the rows of the other peers are unchanged, the peer
\* announcing keeps its row and date_added, and a peer get_peers_for_hash
\* returns for a hash is still returned for it after announcing only other
\* hashes.
C18_UpdatePeerOnlyAdds ==
  [](/\ \A peer \in PeerValues, hs \in HashLists :
          \A after \in {update_peer(DB, peer, hs).db} :
            /\ \A p \in peers : p.address # peer.address => p \in after.peers
            /\ \A p \in peers : \E q \in after.peers :
                 q.pk = p.pk /\ q.address = p.address /\ q.date_added = p.date_added
            /\ hashes \subseteq after.hashes
            /\ peer_hashes \subseteq after.peer_hashes
     /\ \A a \in HashSet :
          \A peer \in ServedPeerValues(DB, a), hs \in ListsWithout(a) :
            \A got \in {get_peers_for_hash(update_peer(DB, peer, hs).db, a)} :
              /\ ~got.panic
              /\ \E q \in got.peers : q.address = peer.address)

\* a peer returned for one hash announces the other hash only, and is then
\* returned for both
C18_Witness ==
  \E peer \in PeerValues, a, b \in HashSet :
    LET after == update_peer(DB, peer, <<b>>).db
    IN  /\ a # b
        /\ peer.address \in ServingAddresses(DB, a)
        /\ peer.address \notin ServingAddresses(DB, b)
        /\ peer.address \in ServingAddresses(after, a)
        /\ peer.address \in ServingAddresses(after, b)

\* the hash rows no link row refers to
OrphanHashes(db) ==
  {h \in db.hashes : \A l \in db.peer_hashes : l.hash_pk # h.pk}

\* C19: get_peer_count equals the number of peers get_peers returns;
\* get_hash_count is never smaller than the number of entries of get_hashes
\* and is larger exactly when a hash row without links exists.
C19_CountsMatchScans ==
  /\ get_peer_count(DB) = Cardinality(get_peers(DB))
  /\ get_hash_count(DB) >= Cardinality(get_hashes(DB))
  /\ (get_hash_count(DB) > Cardinality(get_hashes(DB))) <=> (OrphanHashes(DB) # {})

\* one hash without links beside one with a link, and two peers
C19_Witness ==
  /\ OrphanHashes(DB) # {}
  /\ get_hashes(DB) # {}
  /\ get_hash_count(DB) = Cardinality(get_hashes(DB)) + 1
  /\ get_peer_count(DB) = 2
  /\ Cardinality(get_peers(DB)) = 2

====
